---- MODULE Spec2Model ----
(***************************************************************************)
(* Model of piheta/gokit (apicore): the error taxonomy (apierr), the       *)
(* metadata decorator (metaerr), the validation formatter and the HTTP     *)
(* middleware (Public, RouterRequestLogger).                               *)
(*                                                                         *)
(* Go values are modelled as follows.                                      *)
(*   string        a TLA+ string, or a sequence of one-character strings   *)
(*                 where the code inspects the characters (field names)   *)
(*   any           a record [t, s, n] tagged with its dynamic type         *)
(*   map           a set of <<key, value>> pairs with unique keys          *)
(*   error         the unwrap chain, outermost node first; nil is <<>>     *)
(*   *APIError     a node of kind "APIError"; id stands for the pointer    *)
(***************************************************************************)
EXTENDS Integers, Sequences, FiniteSets, TLC

VARIABLES
    \* ---- error values under construction (SpecErr) ----
    base,        \* the error before any decoration
    cur,         \* the error after the decorations applied so far
    prevErr,     \* the argument of the last WithMetadata / Wrapf call
    lastPairs,   \* the pairs argument of the last WithMetadata call
    op,          \* the operation that acted last
    mapped,      \* MapError(cur, nil); each result is kept until the next call
    mappedBase,  \* MapError(e, nil) for the e that cur decorates
    mdOut,       \* GetMetadata(cur)
    mdMap,       \* GetMetadataMap(cur)
    \* ---- process-wide state ----
    defaultTranslator,
    \* ---- validation formatter (SpecVal) ----
    vErrs,       \* the failure set handed to formatValidationErrors
    vOut,        \* the mapping it returned
    vOrd,        \* the order in which the translated map was ranged over
    vPrev,       \* the mapping the call before returned
    vCalls,      \* how often formatValidationErrors was called on vErrs
    \* ---- request pipeline (Spec), one entry per request ----
    pc,          \* position of the request in the middleware chain
    req,         \* the *http.Request: Method, Path, RawQuery, ctx
    rr,          \* the responseRecorder: statusCode
    sink,        \* the underlying http.ResponseWriter
    hret,        \* the error the wrapped handler returned
    calls,       \* how often the wrapped handler was invoked
    stores,      \* how often the original error was stored in the context
    pub,         \* what Public itself did to the response
    logs,        \* the records the logger emitted for the request
    \* ---- metadata slices and their backing arrays (SpecSlice) ----
    heap,        \* the backing arrays; heap[1] is the caller's array
    decos,       \* the metadata slice of each decoration, outermost first
    given,       \* the pairs each decoration kept when it was created
    got,         \* the slice the last GetMetadata returned
    gotVal,      \* its elements when it was returned
    prevVal,     \* the elements the GetMetadata call before returned
    snap,        \* the backing arrays before the last GetMetadata call
    sop          \* the slice operation that acted last

errVars == <<base, cur, prevErr, lastPairs, op, mapped, mappedBase, mdOut, mdMap>>
valVars == <<vErrs, vOut, vOrd, vPrev, vCalls>>
reqVars == <<pc, req, rr, sink, hret, calls, stores, pub, logs>>
sliceVars == <<heap, decos, given, got, gotVal, prevVal, snap, sop>>
vars == <<errVars, defaultTranslator, valVars, reqVars, sliceVars>>

----------------------------------------------------------------------------
\* Bounds of the model.

\* Longest pairs argument handed to WithMetadata.
MaxPairs == 3
\* Most decorations (WithMetadata / Wrapf) applied to one error.
MaxWraps == 2
\* Most violations in one validation failure set.
MaxViols == 3
\* Number of request slots of the pipeline.
NumRequests == 2
\* Most decorations on an error whose metadata slices are followed.
MaxDecos == 3

----------------------------------------------------------------------------
\* Strings whose characters the code inspects.

Upper == <<"A","B","C","D","E","F","G","H","I","J","K","L","M",
           "N","O","P","Q","R","S","T","U","V","W","X","Y","Z">>
Lower == <<"a","b","c","d","e","f","g","h","i","j","k","l","m",
           "n","o","p","q","r","s","t","u","v","w","x","y","z">>

ToLowerChar(c) ==
    IF \E i \in 1..Len(Upper) : Upper[i] = c
    THEN Lower[CHOOSE i \in 1..Len(Upper) : Upper[i] = c]
    ELSE c

\* strings.ToLower
ToLower(s) == [i \in 1..Len(s) |-> ToLowerChar(s[i])]

\* strings.Split(s, "."): the segments between the dots (never empty).
RECURSIVE SplitFrom(_, _, _)
SplitFrom(s, i, acc) ==
    IF i > Len(s) THEN <<acc>>
    ELSE IF s[i] = "." THEN <<acc>> \o SplitFrom(s, i + 1, <<>>)
    ELSE SplitFrom(s, i + 1, Append(acc, s[i]))

Split(s) == SplitFrom(s, 1, <<>>)

----------------------------------------------------------------------------
\* Dynamically typed values (any) and maps.

StrV(s) == [t |-> "string", s |-> s, n |-> 0]
IntV(n) == [t |-> "int", s |-> "", n |-> n]

\* m[k] = v on a Go map.
MapPut(m, k, v) == {p \in m : p[1] # k} \cup {<<k, v>>}
MapKeys(m) == {p[1] : p \in m}
MapGet(m, k) == (CHOOSE p \in m : p[1] = k)[2]

\* The value stored under a key of a message map: a raw rule tag, or the
\* translator's text for (field, tag).
RawTag(tag) == [tr |-> FALSE, field |-> <<>>, tag |-> tag]
Translated(field, tag) == [tr |-> TRUE, field |-> field, tag |-> tag]

\* APIError.Message (any), tagged with its dynamic type.
MsgString(s) == [k |-> "string", s |-> s, m |-> {}]
MsgAnyMap(m) == [k |-> "map[string]any", s |-> "", m |-> m]
MsgStrMap(m) == [k |-> "map[string]string", s |-> "", m |-> m]
\* A value encoding/json cannot marshal (a channel, a func).
MsgChan == [k |-> "chan", s |-> "", m |-> {}]

----------------------------------------------------------------------------
\* Errors.  Every node of an unwrap chain has the same fields; a field a
\* kind does not have holds its zero value.

Node(kind, id, code, type, msg, text, md, viols) ==
    [kind |-> kind, id |-> id, StatusCode |-> code, Type |-> type,
     Message |-> msg, text |-> text, metadata |-> md, viols |-> viols]

NilErr == <<>>

\* (*APIError)(nil): what MapError returns for a nil error.
NilAPIError == Node("nil", 0, 0, "", MsgString(""), "", <<>>, <<>>)

\* &APIError{...} at address id.
APIErrorAt(id, code, type, msg) ==
    Node("APIError", id, code, type, msg, "", <<>>, <<>>)

\* An error of a standard-library type or sentinel: *json.SyntaxError,
\* *json.UnmarshalTypeError, io.EOF, io.ErrUnexpectedEOF, context.Canceled,
\* context.DeadlineExceeded, or an *errors.errorString with its own text.
StdErr(kind, text) == Node(kind, 0, 0, "", MsgString(""), text, <<>>, <<>>)

\* validator.ValidationErrors: the violations, each with its Namespace(),
\* Field() (the leaf of the namespace) and Tag().
Violation(ns, tag) == [Namespace |-> ns, Field |-> Split(ns)[Len(Split(ns))], Tag |-> tag]
ValidationErrors(viols) ==
    Node("ValidationErrors", 0, 0, "", MsgString(""), "validation failed", <<>>, viols)

WrapperKinds == {"errMetadata", "wrapError"}

\* errors.Unwrap: the wrapped error of a node that has Unwrap() error.
ErrorsUnwrap(e) ==
    IF e = NilErr THEN NilErr
    ELSE IF e[1].kind \in WrapperKinds THEN Tail(e)
    ELSE NilErr

\* A type assertion err.(*T) in place of errors.As: the chain is not walked.
ErrorsAsAssert(e, kinds) ==
    IF e # NilErr /\ e[1].kind \in kinds THEN e[1] ELSE NilAPIError

\* errors.As / errors.Is: the first node of the chain whose type (or
\* sentinel identity) is one of kinds; NilAPIError when there is none.
\* A node with Unwrap() []error (fmt.Errorf with two %w verbs) is followed by
\* its two operands, each a chain that ends at its first node that wraps
\* nothing.
RECURSIVE ChainLen(_)
ChainLen(e) ==
    IF e = NilErr THEN 0
    ELSE IF e[1].kind \in WrapperKinds THEN 1 + ChainLen(Tail(e))
    ELSE 1

FirstOperand(e) == SubSeq(e, 2, 1 + ChainLen(Tail(e)))
SecondOperand(e) == SubSeq(e, 2 + ChainLen(Tail(e)), Len(e))

RECURSIVE ErrorsAs(_, _)
ErrorsAs(e, kinds) ==
    IF e = NilErr THEN NilAPIError
    ELSE IF e[1].kind \in kinds THEN e[1]
    ELSE IF e[1].kind = "wrapErrors"
         THEN LET first == ErrorsAs(FirstOperand(e), kinds)
              IN  IF first.kind \in kinds THEN first
                  ELSE ErrorsAs(SecondOperand(e), kinds)
    ELSE ErrorsAs(ErrorsUnwrap(e), kinds)

\* A match on the text of the error in place of its identity.
ErrorsIsByText(e, kinds) ==
    \E i \in 1..Len(e) :
        \/ e[i].kind \in kinds
        \/ e[i].text = "EOF" /\ "EOF" \in kinds
        \/ e[i].text = "context canceled" /\ "Canceled" \in kinds

ErrorsIs(e, kinds) == ErrorsAs(e, kinds).kind \in kinds

\* APIError.Error(): the rendering of the message.
Render(msg) ==
    CASE msg.k = "string" -> [fmt |-> "text", s |-> msg.s, m |-> {}]
      [] msg.k = "map[string]any" -> [fmt |-> "json", s |-> "", m |-> msg.m]
      [] OTHER -> [fmt |-> "%v", s |-> msg.k, m |-> msg.m]

\* err.Error() of a chain: the pieces of text it is built from, in order.
RECURSIVE ErrorText(_)
ErrorText(e) ==
    IF e = NilErr THEN <<>>
    ELSE CASE e[1].kind = "errMetadata" -> ErrorText(Tail(e))
           [] e[1].kind = "wrapError" ->
                <<[fmt |-> "text", s |-> e[1].text, m |-> {}]>> \o ErrorText(Tail(e))
           [] e[1].kind = "wrapErrors" ->
                ErrorText(FirstOperand(e))
                    \o <<[fmt |-> "text", s |-> e[1].text, m |-> {}]>>
                    \o ErrorText(SecondOperand(e))
           [] e[1].kind = "APIError" -> <<Render(e[1].Message)>>
           [] OTHER -> <<[fmt |-> "text", s |-> e[1].text, m |-> {}]>>

----------------------------------------------------------------------------
\* metaerr: the metadata decorator.

\* WithMetadata that keeps an unmatched trailing element.
WithMetadataKeepAll(err, pairs) ==
    IF err = NilErr THEN NilErr
    ELSE <<Node("errMetadata", 0, 0, "", MsgString(""), "", pairs, <<>>)>> \o err

\* WithMetadata(err, pairs...)
WithMetadata(err, pairs) ==
    IF err = NilErr THEN NilErr
    ELSE LET kept == IF Len(pairs) % 2 # 0
                     THEN SubSeq(pairs, 1, Len(pairs) - 1)
                     ELSE pairs
         IN  <<Node("errMetadata", 0, 0, "", MsgString(""), "", kept, <<>>)>> \o err

\* Wrapf(err, format, args...): fmt.Errorf(format + ": %w", args..., err)
Wrapf(err, format) ==
    IF err = NilErr THEN NilErr
    ELSE <<Node("wrapError", 0, 0, "", MsgString(""), format, <<>>, <<>>)>> \o err

\* Wrapf(err, "%w", other): the format gets a second %w, so fmt.Errorf
\* returns an error with Unwrap() []error over other and err, in this order.
WrapfW(err, other) ==
    IF err = NilErr THEN NilErr
    ELSE <<Node("wrapErrors", 0, 0, "", MsgString(""), ": ", <<>>, <<>>)>>
             \o other \o err

\* The loop of GetMetadata: all is allMetadata so far.
RECURSIVE GetMetadataLoop(_, _)
GetMetadataLoop(err, all) ==
    IF err = NilErr THEN all
    ELSE GetMetadataLoop(ErrorsUnwrap(err),
                         IF err[1].kind = "errMetadata"
                         THEN err[1].metadata \o all
                         ELSE all)

\* GetMetadata(err)
GetMetadata(err) == GetMetadataLoop(err, <<>>)

\* The loop of GetMetadataMap: i is the Go index (0-based) of the key.
RECURSIVE GetMetadataMapLoop(_, _, _)
GetMetadataMapLoop(pairs, i, result) ==
    IF i < 0 THEN result
    ELSE GetMetadataMapLoop(pairs, i - 2,
                            IF pairs[i + 1].t = "string"
                            THEN MapPut(result, pairs[i + 1].s, pairs[i + 2])
                            ELSE result)

\* GetMetadataMap(err); a nil map is the empty set.
GetMetadataMap(err) ==
    LET pairs == GetMetadata(err)
    IN  IF Len(pairs) = 0 THEN {}
        ELSE GetMetadataMapLoop(pairs, Len(pairs) - 2, {})

\* HasMetadata(err)
HasMetadata(err) == ErrorsIs(err, {"errMetadata"})

----------------------------------------------------------------------------
\* apierr: the classifier and the validation formatter.

\* NewError(code, errtype, message): a new *APIError (address 0 stands for
\* an address no error built by a handler has).
NewError(code, errtype, message) == APIErrorAt(0, code, errtype, message)

\* validationErrors.Translate(trans): one entry per namespace, the later
\* violation of a namespace replacing the earlier one.
RECURSIVE TranslateFrom(_, _, _)
TranslateFrom(viols, i, m) ==
    IF i > Len(viols) THEN m
    ELSE TranslateFrom(viols, i + 1,
                       MapPut(m, viols[i].Namespace,
                              Translated(viols[i].Field, viols[i].Tag)))

Translate(viols) == TranslateFrom(viols, 1, {})

\* The orders in which a range statement may visit the keys of map m.
RangeOrders(m) ==
    {o \in [1..Cardinality(MapKeys(m)) -> MapKeys(m)] :
        \A i, j \in DOMAIN o : o[i] = o[j] => i = j}

\* The translated branch of formatValidationErrors: the translated map is
\* ranged over in order ord.
RECURSIVE FormatTranslated(_, _, _, _)
FormatTranslated(translatedErrors, ord, i, formattedErrors) ==
    IF i > Len(ord) THEN formattedErrors
    ELSE LET parts == Split(ord[i])
             fieldName == ToLower(parts[Len(parts)])
         IN  FormatTranslated(translatedErrors, ord, i + 1,
                              MapPut(formattedErrors, fieldName,
                                     MapGet(translatedErrors, ord[i])))

\* The fallback branch keyed by the field name as it is, not lower-cased.
RECURSIVE FormatTagsNoLower(_, _, _)
FormatTagsNoLower(viols, i, formattedErrors) ==
    IF i > Len(viols) THEN formattedErrors
    ELSE FormatTagsNoLower(viols, i + 1,
                           MapPut(formattedErrors, viols[i].Field,
                                  RawTag(viols[i].Tag)))

\* The fallback branch of formatValidationErrors: the violations in order.
RECURSIVE FormatTags(_, _, _)
FormatTags(viols, i, formattedErrors) ==
    IF i > Len(viols) THEN formattedErrors
    ELSE FormatTags(viols, i + 1,
                    MapPut(formattedErrors, ToLower(viols[i].Field),
                           RawTag(viols[i].Tag)))

\* formatValidationErrors(validationErrors) with defaultTranslator = trans.
formatValidationErrors(viols, trans, ord) ==
    IF trans # "nil"
    THEN FormatTranslated(Translate(viols), ord, 1, {})
    ELSE FormatTags(viols, 1, {})

\* The orders formatValidationErrors may range in when classifying err.
MapErrorOrders(err, trans) ==
    IF trans # "nil" /\ ErrorsIs(err, {"ValidationErrors"})
    THEN RangeOrders(Translate(ErrorsAs(err, {"ValidationErrors"}).viols))
    ELSE {<<>>}

\* MapError with the context rules tried before the JSON and validation rules.
MapErrorContextFirst(err, trans, ord) ==
    IF err = NilErr THEN NilAPIError
    ELSE IF ErrorsIs(err, {"APIError"}) THEN ErrorsAs(err, {"APIError"})
    ELSE IF ErrorsIs(err, {"Canceled"})
         THEN NewError(499, "canceled", MsgString("request cancelled"))
    ELSE IF ErrorsIs(err, {"DeadlineExceeded"})
         THEN NewError(504, "canceled", MsgString("request timeout"))
    ELSE IF ErrorsIs(err, {"SyntaxError"}) \/ ErrorsIs(err, {"UnmarshalTypeError"})
         THEN NewError(400, "json", MsgString("invalid JSON format"))
    ELSE IF ErrorsIs(err, {"EOF"}) \/ ErrorsIs(err, {"ErrUnexpectedEOF"})
         THEN NewError(400, "json", MsgString("empty or incomplete JSON body"))
    ELSE IF ErrorsIs(err, {"ValidationErrors"})
         THEN NewError(422, "validation",
                       MsgStrMap(formatValidationErrors(
                           ErrorsAs(err, {"ValidationErrors"}).viols, trans, ord)))
    ELSE NewError(500, "internal", MsgString("internal server error"))

\* MapError(err, r) without its write to the request (see StoreOriginal).
MapError(err, trans, ord) ==
    IF err = NilErr THEN NilAPIError
    ELSE IF ErrorsIs(err, {"APIError"}) THEN ErrorsAs(err, {"APIError"})
    ELSE IF ErrorsIs(err, {"SyntaxError"}) \/ ErrorsIs(err, {"UnmarshalTypeError"})
         THEN NewError(400, "json", MsgString("invalid JSON format"))
    ELSE IF ErrorsIs(err, {"EOF"}) \/ ErrorsIs(err, {"ErrUnexpectedEOF"})
         THEN NewError(400, "json", MsgString("empty or incomplete JSON body"))
    ELSE IF ErrorsIs(err, {"ValidationErrors"})
         THEN NewError(422, "validation",
                       MsgStrMap(formatValidationErrors(
                           ErrorsAs(err, {"ValidationErrors"}).viols, trans, ord)))
    ELSE IF ErrorsIs(err, {"Canceled"})
         THEN NewError(499, "canceled", MsgString("request cancelled"))
    ELSE IF ErrorsIs(err, {"DeadlineExceeded"})
         THEN NewError(504, "canceled", MsgString("request timeout"))
    ELSE NewError(500, "internal", MsgString("internal server error"))

----------------------------------------------------------------------------
\* Inputs.

\* Field namespaces as the validation engine reports them.
NsUserEmail == <<"U", ".", "E", "m">>
NsPostEmail == <<"P", ".", "E", "m">>
NsAge == <<"A", "g">>
Namespaces == {NsUserEmail, NsPostEmail, NsAge}
Tags == {"required", "email"}
Violations == {Violation(ns, tag) : ns \in Namespaces, tag \in Tags}

\* Metadata keys (one of them not a string), values, and the pairs a
\* handler attaches.
MetaKeys == {StrV("x"), IntV(7)}
MetaVals == {StrV("1"), StrV("2")}
MetaPairs == {<<StrV("x"), StrV("1")>>, <<StrV("x"), StrV("2")>>, <<IntV(7), StrV("1")>>}

\* The argument lists key, value, key, ... of length n.
PairArgs(n) ==
    {a \in [1..n -> MetaKeys \cup MetaVals] :
        \A i \in 1..n :
            IF i % 2 = 1
            THEN IF i < n THEN <<a[i], a[i + 1]>> \in MetaPairs ELSE a[i] \in MetaKeys
            ELSE TRUE}

AllPairArgs == UNION {PairArgs(n) : n \in 0..MaxPairs}

\* Errors a handler may produce before decorating them.
LeafErrors ==
    { APIErrorAt(1, 404, "not_found", MsgString("user not found")),
      APIErrorAt(2, 422, "validation",
                 MsgAnyMap({<<<<"r", "e", "a", "s", "o", "n">>, RawTag("missing")>>})),
      APIErrorAt(3, 500, "internal", MsgChan),
      StdErr("SyntaxError", "invalid character"),
      StdErr("UnmarshalTypeError", "cannot unmarshal string"),
      StdErr("EOF", "EOF"),
      StdErr("ErrUnexpectedEOF", "unexpected EOF"),
      StdErr("Canceled", "context canceled"),
      StdErr("DeadlineExceeded", "context deadline exceeded"),
      StdErr("errorString", "EOF"),
      StdErr("errorString", "context canceled"),
      ValidationErrors(<<Violation(NsUserEmail, "email"), Violation(NsAge, "required")>>),
      ValidationErrors(<<Violation(NsUserEmail, "email"), Violation(NsPostEmail, "required")>>) }

BaseErrors == {<<n>> : n \in LeafErrors} \cup {NilErr}

Translators == {"nil", "en"}

\* The error under the outermost run of WithMetadata decorations.
RECURSIVE Undecorated(_)
Undecorated(e) ==
    IF e # NilErr /\ e[1].kind = "errMetadata" THEN Undecorated(Tail(e)) ELSE e

\* Number of decorations on the chain.
RECURSIVE Wraps(_)
Wraps(e) ==
    IF e = NilErr THEN 0
    ELSE (IF e[1].kind \in WrapperKinds THEN 1 ELSE 0) + Wraps(Tail(e))

----------------------------------------------------------------------------
\* net/http: the response sink, and what the middleware does to it.

\* A comparison with the whole string in place of its prefix.
HasPrefixWhole(s, prefix) == s = prefix

\* strings.HasPrefix(s, prefix)
HasPrefix(s, prefix) ==
    Len(s) >= Len(prefix) /\ SubSeq(s, 1, Len(prefix)) = prefix

\* A piece of body written to the sink.
Chunk(by, fmt, status, type, msg, text) ==
    [by |-> by, fmt |-> fmt, status |-> status, type |-> type, msg |-> msg, text |-> text]

\* A fresh response sink: nothing sent, no header set.
NewSink ==
    [wroteHeader |-> FALSE, status |-> 0, contentType |-> "", sentContentType |-> "",
     body |-> <<>>]

\* w.Header().Set("Content-Type", v)
SinkSetContentType(s, v) == [s EXCEPT !.contentType = v]

\* The sink's WriteHeader: the first call sends status and headers, later
\* calls are ignored.
SinkWriteHeader(s, code) ==
    IF s.wroteHeader THEN s
    ELSE [s EXCEPT !.wroteHeader = TRUE, !.status = code,
                   !.sentContentType = s.contentType]

\* The sink's Write: sends the header with status 200 if none was sent.
SinkWrite(s, chunk) ==
    LET s1 == SinkWriteHeader(s, 200)
    IN  [s1 EXCEPT !.body = Append(@, chunk)]

\* responseRecorder.WriteHeader(statusCode): w is <<recorder, sink>>.
RecorderWriteHeader(w, statusCode) ==
    <<[w[1] EXCEPT !.statusCode = statusCode], SinkWriteHeader(w[2], statusCode)>>

\* Write through the recorder: promoted from the embedded ResponseWriter.
RecorderWrite(w, chunk) == <<w[1], SinkWrite(w[2], chunk)>>

\* w.Header().Set through the recorder (promoted).
RecorderSetContentType(w, v) == <<w[1], SinkSetContentType(w[2], v)>>

\* http.Error(w, text, code)
HttpError(w, by, text, code) ==
    LET w1 == RecorderSetContentType(w, "text/plain; charset=utf-8")
        w2 == RecorderWriteHeader(w1, code)
    IN  RecorderWrite(w2, Chunk(by, "text", 0, "", MsgString(""), text))

\* Whether encoding/json can marshal a message.
Encodable(msg) == msg.k # "chan"

\* An encoding of the message alone, without status and type.
EncodeMessageOnly(by, e) == Chunk(by, "json", 0, "", e.Message, "")

\* json.NewEncoder(w).Encode(apiErr): the JSON object of an APIError.
EncodeAPIError(by, e) == Chunk(by, "json", e.StatusCode, e.Type, e.Message, "")

\* response.JSON(w, statusCode, data); data is a message value.
ResponseJSON(w, statusCode, data) ==
    LET w1 == RecorderSetContentType(w, "application/json")
        w2 == RecorderWriteHeader(w1, statusCode)
    IN  IF Encodable(data)
        THEN RecorderWrite(w2, Chunk("handler", "json", 0, "", data, ""))
        ELSE HttpError(w2, "handler", "Failed to encode response", 500)

\* response.Status(w, statusCode)
ResponseStatus(w, statusCode) == RecorderWriteHeader(w, statusCode)

\* http.StatusText(code) for the codes of the model.
StatusText(code) ==
    CASE code = 200 -> "OK"
      [] code = 400 -> "Bad Request"
      [] code = 404 -> "Not Found"
      [] code = 422 -> "Unprocessable Entity"
      [] code = 500 -> "Internal Server Error"
      [] code = 504 -> "Gateway Timeout"
      [] OTHER -> ""

----------------------------------------------------------------------------
\* slog records.

AttrVal(i, s, cs, txt) == [i |-> i, s |-> s, cs |-> cs, txt |-> txt]
\* slog.Int / slog.String
Attr(key, val) == [attr |-> TRUE, key |-> key, val |-> val, raw |-> StrV("")]
\* An element of GetMetadata appended to the attributes as it is.
RawArg(v) == [attr |-> FALSE, key |-> "", val |-> AttrVal(0, "", <<>>, <<>>), raw |-> v]

RawArgs(md) == [i \in 1..Len(md) |-> RawArg(md[i])]

\* The detail attributes put in front of the attributes built so far.
PrependDetail(attrs, detail) == detail \o attrs

\* attrs = append(attrs, slog.String("error_detail", ...)) followed by
\* attrs = append(attrs, metadata...)
AppendDetail(attrs, detail) == attrs \o detail

\* The record RouterRequestLogger emits for a request, as a sequence of
\* zero or one records.  ctxErr is the value under OriginalErrorContextKey.
\* The measured duration and the remote address are not modelled: ms and
\* ip hold a placeholder.
LoggerRecord(method, urlPath, rawQuery, status, ctxErr) ==
    LET path == IF rawQuery # <<>> THEN urlPath \o <<"?">> \o rawQuery ELSE urlPath
        attrs == << Attr("status", AttrVal(status, "", <<>>, <<>>)),
                    Attr("ms", AttrVal(0, "%.2f", <<>>, <<>>)),
                    Attr("ip", AttrVal(0, "RemoteAddr", <<>>, <<>>)),
                    Attr("method", AttrVal(0, method, <<>>, <<>>)),
                    Attr("path", AttrVal(0, "", path, <<>>)) >>
        detail == IF ctxErr # NilErr
                  THEN <<Attr("error_detail", AttrVal(0, "", <<>>, ErrorText(ctxErr)))>>
                       \o RawArgs(GetMetadata(ctxErr))
                  ELSE <<>>
        errAttr == <<Attr("error", AttrVal(0, StatusText(status), <<>>, <<>>))>>
    IN  IF ~HasPrefix(path, <<"/", "a", "p", "i">>) THEN <<>>
        ELSE IF method = "OPTIONS" THEN <<>>
        ELSE IF status >= 400
             THEN IF status >= 500
                  THEN <<[level |-> "ERROR", msg |-> "REQ",
                          attrs |-> AppendDetail(attrs, detail) \o errAttr]>>
                  ELSE <<[level |-> "WARN", msg |-> "REQ",
                          attrs |-> AppendDetail(attrs, detail) \o errAttr]>>
             ELSE <<[level |-> "INFO", msg |-> "REQ", attrs |-> attrs]>>

----------------------------------------------------------------------------
\* The request pipeline: RouterRequestLogger(Public(h)).

Requests == 1..NumRequests

Methods == {"GET", "OPTIONS"}
PathApiX == <<"/", "a", "p", "i", "/", "x">>
PathHealth == <<"/", "h", "e", "a", "l", "t", "h">>
PathAp == <<"/", "a", "p">>
Paths == {PathApiX, PathHealth, PathAp}
Queries == {<<>>, <<"i">>}

\* What a wrapped handler may do to the response before it returns.
HandlerWrites == {"none", "JSON", "Status"}
HandlerStatuses == {200, 404}
HandlerData == {MsgString("pong"), MsgChan}

\* The errors a wrapped handler may return.
HandlerErrors ==
    { NilErr,
      <<APIErrorAt(1, 404, "not_found", MsgString("user not found"))>>,
      WithMetadata(<<APIErrorAt(1, 404, "not_found", MsgString("user not found"))>>,
                   <<StrV("x"), StrV("1")>>),
      WithMetadata(WithMetadata(<<StdErr("EOF", "EOF")>>, <<StrV("x"), StrV("1")>>),
                   <<StrV("x"), StrV("2"), IntV(7)>>),
      Wrapf(<<StdErr("errorString", "boom")>>, "load user"),
      <<APIErrorAt(3, 404, "not_found", MsgChan)>>,
      <<StdErr("Canceled", "context canceled")>>,
      WithMetadata(<<ValidationErrors(<<Violation(NsUserEmail, "email"),
                                        Violation(NsPostEmail, "required")>>)>>,
                   <<StrV("x"), StrV("1")>>) }

NoRequest == [Method |-> "", Path |-> <<>>, RawQuery |-> <<>>, ctx |-> NilErr]
NoPublic == [apiErr |-> NilAPIError, statuses |-> <<>>, body |-> <<>>]

\* r.WithContext(ctx) whose result is dropped: the request is not changed.
StoreOriginalDropped(rq, err) == rq

\* context.WithValue(r.Context(), OriginalErrorContextKey, err) and
\* *r = *r.WithContext(ctx): the request the logger holds is overwritten.
StoreOriginal(rq, err) == [rq EXCEPT !.ctx = err]

\* r.Context().Value(OriginalErrorContextKey).(error)
OriginalError(rq) == rq.ctx

\* One request value shared by every invocation of the logger.
RequestShared(reqs, r) == reqs[1]

\* The *http.Request the logger's closure holds while it serves request r:
\* the parameter r of that invocation.
RequestHeld(reqs, r) == reqs[r]

\* A recorder left with the zero value of statusCode.
NewRecorderZero == [statusCode |-> 0]

\* &responseRecorder{ResponseWriter: w, statusCode: http.StatusOK}
NewRecorder == [statusCode |-> 200]

\* The handler's own writes.
HandlerWrite(w, how, code, data) ==
    CASE how = "JSON" -> ResponseJSON(w, code, data)
      [] how = "Status" -> ResponseStatus(w, code)
      [] OTHER -> w

\* A slice header: backing array, offset into it, length and capacity.
\* The nil slice has no array.
Slice(arr, off, len, cap) == [arr |-> arr, off |-> off, len |-> len, cap |-> cap]
NilSlice == Slice(0, 0, 0, 0)

\* The elements of slice sl in the arrays h.
SliceVal(h, sl) == [i \in 1..sl.len |-> h[sl.arr][sl.off + i]]

\* append(a, b...): <<arrays afterwards, resulting slice>>.  Nothing to
\* append returns a itself; elements that fit the capacity of a are written
\* into its backing array behind its length; otherwise a new array receives
\* the elements of a and of b.
GoAppend(h, a, b) ==
    LET bv == SliceVal(h, b)
        n == a.len + b.len
    IN  IF b.len = 0 THEN <<h, a>>
        ELSE IF n <= a.cap
             THEN <<[h EXCEPT ![a.arr] =
                        [i \in 1..Len(h[a.arr]) |->
                            IF i > a.off + a.len /\ i <= a.off + n
                            THEN bv[i - a.off - a.len]
                            ELSE h[a.arr][i]]],
                    [a EXCEPT !.len = n]>>
        ELSE <<Append(h, SliceVal(h, a) \o bv), Slice(Len(h) + 1, 0, n, n)>>

\* The metadata slice WithMetadata stores for the argument slice pairs: the
\* slice itself, cut by one element when its length is odd.
SliceWithMetadata(pairs) ==
    IF pairs.len % 2 # 0 THEN [pairs EXCEPT !.len = @ - 1] ELSE pairs

\* The loop of GetMetadata over the decorations ds from the k-th on, with
\* hs = <<arrays, allMetadata>> so far.
RECURSIVE SliceGetMetadataLoop(_, _, _)
SliceGetMetadataLoop(hs, ds, k) ==
    IF k > Len(ds) THEN hs
    ELSE SliceGetMetadataLoop(GoAppend(hs[1], ds[k], hs[2]), ds, k + 1)

\* GetMetadata(err) for the error decorated with ds.
SliceGetMetadata(h, ds) == SliceGetMetadataLoop(<<h, NilSlice>>, ds, 1)

\* The caller's array s, and the windows <<i, j>> of the slices s[i:j] the
\* caller passes as pairs.
CallerArray == <<StrV("a"), StrV("1"), StrV("b"), StrV("2")>>
SpreadWindows == {<<0, 2>>, <<2, 4>>, <<0, 4>>, <<0, 3>>, <<1, 3>>, <<0, 0>>}
\* The argument lists written out in the call.
LiteralArgs ==
    {<<>>, <<StrV("x"), StrV("y")>>, <<StrV("x"), StrV("y"), StrV("w")>>}

InitSliceVars ==
    /\ heap = <<CallerArray>> /\ snap = <<CallerArray>>
    /\ decos = <<>> /\ given = <<>>
    /\ got = NilSlice /\ gotVal = <<>> /\ prevVal = <<>>
    /\ sop = "init"

InitErrVars(b) ==
    /\ base = b /\ cur = b /\ prevErr = NilErr /\ lastPairs = <<>>
    /\ op = "init" /\ mapped = NilAPIError /\ mappedBase = NilAPIError
    /\ mdOut = <<>> /\ mdMap = {}

InitValVars(v) ==
    /\ vErrs = v /\ vOut = {} /\ vOrd = <<>>
    /\ vPrev = {} /\ vCalls = 0

\* Requests in started are about to enter the logger.
InitReqVars(started) ==
    /\ pc = [r \in Requests |-> IF r \in started THEN "start" ELSE "off"]
    /\ req = [r \in Requests |-> NoRequest]
    /\ rr = [r \in Requests |-> [statusCode |-> 0]]
    /\ sink = [r \in Requests |-> NewSink]
    /\ hret = [r \in Requests |-> NilErr]
    /\ calls = [r \in Requests |-> 0]
    /\ stores = [r \in Requests |-> 0]
    /\ pub = [r \in Requests |-> NoPublic]
    /\ logs = [r \in Requests |-> <<>>]

\* RouterRequestLogger up to next.ServeHTTP: a request arrives and the
\* recorder is created around a fresh sink.
LoggerEnterWith(r, methods, paths, queries) ==
    /\ pc[r] = "start"
    /\ \E m \in methods, p \in paths, q \in queries :
         req' = [req EXCEPT ![r] = [Method |-> m, Path |-> p, RawQuery |-> q, ctx |-> NilErr]]
    /\ rr' = [rr EXCEPT ![r] = NewRecorder]
    /\ pc' = [pc EXCEPT ![r] = "handler"]
    /\ UNCHANGED <<sink, hret, calls, stores, pub, logs>>
    /\ UNCHANGED <<errVars, defaultTranslator, valVars, sliceVars>>

LoggerEnter(r) == LoggerEnterWith(r, Methods, Paths, Queries)

\* Public: h(w, r) runs and returns err.
HandlerRunWith(r, hows, errs) ==
    /\ pc[r] = "handler"
    /\ \E how \in hows, code \in HandlerStatuses, data \in HandlerData,
          err \in errs :
         /\ how = "none" => (code = 200 /\ data = MsgString("pong"))
         /\ how = "Status" => data = MsgString("pong")
         /\ LET w == HandlerWrite(<<rr[r], sink[r]>>, how, code, data)
            IN  /\ rr' = [rr EXCEPT ![r] = w[1]]
                /\ sink' = [sink EXCEPT ![r] = w[2]]
         /\ hret' = [hret EXCEPT ![r] = err]
         /\ pc' = [pc EXCEPT ![r] = IF err # NilErr THEN "maperror" ELSE "logexit"]
    /\ calls' = [calls EXCEPT ![r] = @ + 1]
    /\ UNCHANGED <<req, stores, pub, logs>>
    /\ UNCHANGED <<errVars, defaultTranslator, valVars, sliceVars>>

HandlerRun(r) == HandlerRunWith(r, HandlerWrites, HandlerErrors)

\* Public: err := apierr.MapError(err, r).
PublicMapError(r) ==
    /\ pc[r] = "maperror"
    /\ \E ord \in MapErrorOrders(hret[r], defaultTranslator) :
         pub' = [pub EXCEPT ![r].apiErr = MapError(hret[r], defaultTranslator, ord)]
    /\ req' = [req EXCEPT ![r] = StoreOriginal(@, hret[r])]
    /\ stores' = [stores EXCEPT ![r] = @ + 1]
    /\ pc' = [pc EXCEPT ![r] = "writeheader"]
    /\ UNCHANGED <<rr, sink, hret, calls, logs>>
    /\ UNCHANGED <<errVars, defaultTranslator, valVars, sliceVars>>

\* Public: w.WriteHeader(err.StatusCode).
PublicWriteHeader(r) ==
    /\ pc[r] = "writeheader"
    /\ LET w == RecorderWriteHeader(<<rr[r], sink[r]>>, pub[r].apiErr.StatusCode)
       IN  /\ rr' = [rr EXCEPT ![r] = w[1]]
           /\ sink' = [sink EXCEPT ![r] = w[2]]
    /\ pub' = [pub EXCEPT ![r].statuses = Append(@, pub[r].apiErr.StatusCode)]
    /\ pc' = [pc EXCEPT ![r] = "encode"]
    /\ UNCHANGED <<req, hret, calls, stores, logs>>
    /\ UNCHANGED <<errVars, defaultTranslator, valVars, sliceVars>>

\* Public: json.NewEncoder(w).Encode(err), and http.Error when it fails.
PublicEncode(r) ==
    /\ pc[r] = "encode"
    /\ IF Encodable(pub[r].apiErr.Message)
       THEN LET c == EncodeAPIError("public", pub[r].apiErr)
                w == RecorderWrite(<<rr[r], sink[r]>>, c)
            IN  /\ rr' = [rr EXCEPT ![r] = w[1]]
                /\ sink' = [sink EXCEPT ![r] = w[2]]
                /\ pub' = [pub EXCEPT ![r].body = Append(@, c)]
       ELSE LET w == HttpError(<<rr[r], sink[r]>>, "public", "Error encoding response", 500)
            IN  /\ rr' = [rr EXCEPT ![r] = w[1]]
                /\ sink' = [sink EXCEPT ![r] = w[2]]
                /\ pub' = [pub EXCEPT ![r].statuses = Append(@, 500),
                                      ![r].body = Append(@, Chunk("public", "text", 0, "",
                                                      MsgString(""), "Error encoding response"))]
    /\ pc' = [pc EXCEPT ![r] = "logexit"]
    /\ UNCHANGED <<req, hret, calls, stores, logs>>
    /\ UNCHANGED <<errVars, defaultTranslator, valVars, sliceVars>>

\* RouterRequestLogger after next.ServeHTTP returned.
LoggerExit(r) ==
    /\ pc[r] = "logexit"
    /\ logs' = [logs EXCEPT ![r] = @ \o LoggerRecord(req[r].Method, req[r].Path,
                                       req[r].RawQuery, rr[r].statusCode,
                                       OriginalError(RequestHeld(req, r)))]
    /\ pc' = [pc EXCEPT ![r] = "done"]
    /\ UNCHANGED <<req, rr, sink, hret, calls, stores, pub>>
    /\ UNCHANGED <<errVars, defaultTranslator, valVars, sliceVars>>

\* One request passes through the chain; the translator was set (or not)
\* during initialisation.
Init ==
    /\ InitErrVars(NilErr)
    /\ InitValVars(<<>>)
    /\ defaultTranslator \in Translators
    /\ InitReqVars({1})
    /\ InitSliceVars

Next ==
    \E r \in Requests :
        \/ LoggerEnter(r)
        \/ HandlerRun(r)
        \/ PublicMapError(r)
        \/ PublicWriteHeader(r)
        \/ PublicEncode(r)
        \/ LoggerExit(r)

Spec == Init /\ [][Next]_vars

----------------------------------------------------------------------------
\* Several requests in flight at once, each served by its own invocation of
\* RouterRequestLogger(Public(h)); their steps interleave.

\* The errors the handler of request r may return: each names its request.
ConcErrors(r) ==
    { NilErr,
      WithMetadata(<<APIErrorAt(r, 404, "not_found", MsgString("user not found"))>>,
                   <<StrV("req"), IntV(r)>>),
      WithMetadata(<<StdErr("errorString", "boom")>>, <<StrV("req"), IntV(r)>>) }

ConcLoggerEnter(r) == LoggerEnterWith(r, {"GET"}, {PathApiX, PathHealth}, {<<>>})

ConcHandlerRun(r) == HandlerRunWith(r, {"none"}, ConcErrors(r))

InitConc ==
    /\ InitErrVars(NilErr)
    /\ InitValVars(<<>>)
    /\ defaultTranslator = "nil"
    /\ InitReqVars(Requests)
    /\ InitSliceVars

NextConc ==
    \E r \in Requests :
        \/ ConcLoggerEnter(r)
        \/ ConcHandlerRun(r)
        \/ PublicMapError(r)
        \/ PublicWriteHeader(r)
        \/ PublicEncode(r)
        \/ LoggerExit(r)

SpecConc == InitConc /\ [][NextConc]_vars

----------------------------------------------------------------------------
\* The error functions applied to errors built step by step.

\* SetTranslator(trans), called during initialisation.
SetTranslator(t) ==
    /\ op = "init"
    /\ defaultTranslator' = t
    /\ UNCHANGED <<errVars, valVars, reqVars, sliceVars>>

\* cur = WithMetadata(cur, pairs...)
DoWithMetadata ==
    /\ Wraps(cur) < MaxWraps
    /\ \E pairs \in AllPairArgs :
         /\ lastPairs' = pairs
         /\ cur' = WithMetadata(cur, pairs)
    /\ prevErr' = cur
    /\ op' = "WithMetadata"
    /\ mapped' = NilAPIError /\ mappedBase' = NilAPIError
    /\ mdOut' = <<>> /\ mdMap' = {}
    /\ UNCHANGED <<base, defaultTranslator, valVars, reqVars, sliceVars>>

\* cur = Wrapf(cur, format)
DoWrapf ==
    /\ Wraps(cur) < MaxWraps
    /\ cur' = Wrapf(cur, "load user")
    /\ prevErr' = cur
    /\ lastPairs' = <<>>
    /\ op' = "Wrapf"
    /\ mapped' = NilAPIError /\ mappedBase' = NilAPIError
    /\ mdOut' = <<>> /\ mdMap' = {}
    /\ UNCHANGED <<base, defaultTranslator, valVars, reqVars, sliceVars>>

\* MapError(cur, nil) and MapError(e, nil) for the error e under the outer
\* decorations of cur, the formatter ranging over the translated map in the
\* same order in both.
DoMapError ==
    /\ op # "MapError"
    /\ \E ord \in MapErrorOrders(cur, defaultTranslator) :
         /\ mapped' = MapError(cur, defaultTranslator, ord)
         /\ mappedBase' = MapError(Undecorated(cur), defaultTranslator, ord)
    /\ op' = "MapError"
    /\ mdOut' = <<>> /\ mdMap' = {}
    /\ UNCHANGED <<base, cur, prevErr, lastPairs>>
    /\ UNCHANGED <<defaultTranslator, valVars, reqVars, sliceVars>>

\* GetMetadata(cur)
DoGetMetadata ==
    /\ op # "GetMetadata"
    /\ mdOut' = GetMetadata(cur)
    /\ op' = "GetMetadata"
    /\ mapped' = NilAPIError /\ mappedBase' = NilAPIError /\ mdMap' = {}
    /\ UNCHANGED <<base, cur, prevErr, lastPairs>>
    /\ UNCHANGED <<defaultTranslator, valVars, reqVars, sliceVars>>

\* GetMetadataMap(cur)
DoGetMetadataMap ==
    /\ op # "GetMetadataMap"
    /\ mdMap' = GetMetadataMap(cur)
    /\ op' = "GetMetadataMap"
    /\ mapped' = NilAPIError /\ mappedBase' = NilAPIError /\ mdOut' = <<>>
    /\ UNCHANGED <<base, cur, prevErr, lastPairs>>
    /\ UNCHANGED <<defaultTranslator, valVars, reqVars, sliceVars>>

InitErr ==
    /\ \E b \in BaseErrors : InitErrVars(b)
    /\ InitValVars(<<>>)
    /\ defaultTranslator = "nil"
    /\ InitReqVars({})
    /\ InitSliceVars

NextErr ==
    \/ \E t \in Translators : SetTranslator(t)
    \/ DoWithMetadata
    \/ DoWrapf
    \/ DoMapError
    \/ DoGetMetadata
    \/ DoGetMetadataMap

SpecErr == InitErr /\ [][NextErr]_vars

----------------------------------------------------------------------------
\* MapError applied to errors that wrap two errors at once.

\* The errors passed to Wrapf as the argument of a %w verb.
WrappedArgs ==
    { <<APIErrorAt(4, 409, "conflict", MsgString("duplicate"))>>,
      <<StdErr("SyntaxError", "invalid character")>>,
      <<StdErr("EOF", "EOF")>>,
      <<ValidationErrors(<<Violation(NsAge, "required")>>)>>,
      <<StdErr("Canceled", "context canceled")>>,
      <<StdErr("DeadlineExceeded", "context deadline exceeded")>>,
      <<StdErr("errorString", "boom")>>,
      WithMetadata(<<StdErr("Canceled", "context canceled")>>,
                   <<StrV("x"), StrV("1")>>),
      Wrapf(<<StdErr("EOF", "EOF")>>, "read body") }

\* cur = Wrapf(cur, "%w", other)
DoWrapfW ==
    /\ op \in {"init", "WithMetadata"}
    /\ \E other \in WrappedArgs : cur' = WrapfW(cur, other)
    /\ prevErr' = cur
    /\ lastPairs' = <<>>
    /\ op' = "WrapfW"
    /\ mapped' = NilAPIError /\ mappedBase' = NilAPIError
    /\ mdOut' = <<>> /\ mdMap' = {}
    /\ UNCHANGED <<base, defaultTranslator, valVars, reqVars, sliceVars>>

\* cur = WithMetadata(cur, "x", "1"), once, before cur is wrapped.
DoDecorateOnce ==
    /\ op = "init"
    /\ lastPairs' = <<StrV("x"), StrV("1")>>
    /\ cur' = WithMetadata(cur, lastPairs')
    /\ prevErr' = cur
    /\ op' = "WithMetadata"
    /\ UNCHANGED <<mapped, mappedBase, mdOut, mdMap>>
    /\ UNCHANGED <<base, defaultTranslator, valVars, reqVars, sliceVars>>

NextMulti ==
    \/ \E t \in Translators : SetTranslator(t)
    \/ DoDecorateOnce
    \/ DoWrapfW
    \/ DoMapError

SpecMulti == InitErr /\ [][NextMulti]_vars

----------------------------------------------------------------------------
\* The validation formatter applied to failure sets.

\* The failure sets of up to MaxViols violations.
FailureSets == UNION {[1..n -> Violations] : n \in 1..MaxViols}

\* vOut = formatValidationErrors(vErrs), a first and a second time.
DoFormat ==
    /\ vCalls < 2
    /\ \E ord \in (IF defaultTranslator # "nil"
                   THEN RangeOrders(Translate(vErrs)) ELSE {<<>>}) :
         /\ vOut' = formatValidationErrors(vErrs, defaultTranslator, ord)
         /\ vOrd' = ord
    /\ vPrev' = vOut
    /\ vCalls' = vCalls + 1
    /\ op' = "format"
    /\ UNCHANGED <<base, cur, prevErr, lastPairs, mapped, mappedBase, mdOut, mdMap>>
    /\ UNCHANGED <<vErrs, defaultTranslator, reqVars, sliceVars>>

InitVal ==
    /\ InitErrVars(NilErr)
    /\ \E v \in FailureSets : InitValVars(v)
    /\ defaultTranslator = "nil"
    /\ InitReqVars({})
    /\ InitSliceVars

NextVal ==
    \/ \E t \in Translators : SetTranslator(t)
    \/ DoFormat

SpecVal == InitVal /\ [][NextVal]_vars

----------------------------------------------------------------------------
\* WithMetadata and GetMetadata on slices that share backing arrays.

\* err = WithMetadata(err, s[i:j]...) for the caller's array s.
SliceDecorateSpread ==
    /\ sop \in {"init", "WithMetadata", "GetMetadata"}
    /\ Len(decos) < MaxDecos
    /\ \E win \in SpreadWindows :
         LET pairs == Slice(1, win[1], win[2] - win[1], Len(heap[1]) - win[1])
             md == SliceWithMetadata(pairs)
         IN  /\ decos' = <<md>> \o decos
             /\ given' = <<SliceVal(heap, md)>> \o given
    /\ sop' = "WithMetadata"
    /\ UNCHANGED <<heap, got, gotVal, prevVal, snap>>
    /\ UNCHANGED <<errVars, defaultTranslator, valVars, reqVars>>

\* err = WithMetadata(err, args...) with the arguments written out: the
\* compiler passes a fresh array, or the nil slice when there are none.
SliceDecorateLiteral ==
    /\ sop \in {"init", "WithMetadata", "GetMetadata"}
    /\ Len(decos) < MaxDecos
    /\ \E args \in LiteralArgs :
         LET pairs == IF args = <<>> THEN NilSlice
                      ELSE Slice(Len(heap) + 1, 0, Len(args), Len(args))
             h == IF args = <<>> THEN heap ELSE Append(heap, args)
             md == SliceWithMetadata(pairs)
         IN  /\ heap' = h
             /\ decos' = <<md>> \o decos
             /\ given' = <<SliceVal(h, md)>> \o given
    /\ sop' = "WithMetadata"
    /\ UNCHANGED <<got, gotVal, prevVal, snap>>
    /\ UNCHANGED <<errVars, defaultTranslator, valVars, reqVars>>

\* got = GetMetadata(err); a call that follows a write to the slice the
\* call before returned is marked as the second of the two.
SliceDoGetMetadata ==
    /\ sop \in {"WithMetadata", "Modify"}
    /\ LET hs == SliceGetMetadata(heap, decos)
       IN  /\ heap' = hs[1]
           /\ got' = hs[2]
           /\ gotVal' = SliceVal(hs[1], hs[2])
    /\ snap' = heap
    /\ prevVal' = gotVal
    /\ sop' = IF sop = "Modify" THEN "GetMetadataAgain" ELSE "GetMetadata"
    /\ UNCHANGED <<decos, given>>
    /\ UNCHANGED <<errVars, defaultTranslator, valVars, reqVars>>

\* got[i] = "z": the caller writes into the slice GetMetadata returned.
SliceModify ==
    /\ sop = "GetMetadata"
    /\ \E i \in 1..got.len :
         heap' = [heap EXCEPT ![got.arr][got.off + i] = StrV("z")]
    /\ sop' = "Modify"
    /\ UNCHANGED <<decos, given, got, gotVal, prevVal, snap>>
    /\ UNCHANGED <<errVars, defaultTranslator, valVars, reqVars>>

InitSlice ==
    /\ InitErrVars(NilErr)
    /\ InitValVars(<<>>)
    /\ defaultTranslator = "nil"
    /\ InitReqVars({})
    /\ InitSliceVars

NextSlice ==
    \/ SliceDecorateSpread
    \/ SliceDecorateLiteral
    \/ SliceDoGetMetadata
    \/ SliceModify

SpecSlice == InitSlice /\ [][NextSlice]_vars

----------------------------------------------------------------------------
\* Properties of the error functions (SpecErr, SpecVal).

\* Whether m is a non-nil *APIError with this status, type and text.
IsAPIError(m, code, type, text) ==
    /\ m.kind = "APIError" /\ m.StatusCode = code
    /\ m.Type = type /\ m.Message = MsgString(text)

C2_MapErrorTable ==
    op = "MapError" =>
        IF cur = NilErr THEN mapped = NilAPIError
        ELSE LET leaf == cur[Len(cur)]
             IN  CASE leaf.kind = "APIError" -> mapped = leaf
                   [] leaf.kind \in {"SyntaxError", "UnmarshalTypeError"} ->
                        IsAPIError(mapped, 400, "json", "invalid JSON format")
                   [] leaf.kind \in {"EOF", "ErrUnexpectedEOF"} ->
                        IsAPIError(mapped, 400, "json", "empty or incomplete JSON body")
                   [] leaf.kind = "ValidationErrors" ->
                        /\ mapped.kind = "APIError"
                        /\ mapped.StatusCode = 422 /\ mapped.Type = "validation"
                   [] leaf.kind = "Canceled" ->
                        IsAPIError(mapped, 499, "canceled", "request cancelled")
                   [] leaf.kind = "DeadlineExceeded" ->
                        IsAPIError(mapped, 504, "canceled", "request timeout")
                   [] OTHER ->
                        IsAPIError(mapped, 500, "internal", "internal server error")

\* An error that only reads "EOF" fell through to the fallback.
C2_Witness ==
    /\ op = "MapError" /\ cur # NilErr
    /\ cur[Len(cur)] = StdErr("errorString", "EOF")
    /\ mapped.StatusCode = 500 /\ mapped.Type = "internal"

\* Both decorations of a doubly decorated error set the one pair (k, v),
\* with the same string key and different values.
SameKeyTwice ==
    /\ Len(cur) = 3
    /\ cur[1].kind = "errMetadata" /\ cur[2].kind = "errMetadata"
    /\ Len(cur[1].metadata) = 2 /\ Len(cur[2].metadata) = 2
    /\ cur[1].metadata[1].t = "string"
    /\ cur[1].metadata[1] = cur[2].metadata[1]
    /\ cur[1].metadata[2] # cur[2].metadata[2]

\* C3: GetMetadataMap on a doubly decorated error whose decorations set
\* the same string key to different values returns the value of the outer
\* (later applied) decoration for that key.
C3_OuterValueWins ==
    (op = "GetMetadataMap" /\ SameKeyTwice) =>
        /\ cur[1].metadata[1].s \in MapKeys(mdMap)
        /\ MapGet(mdMap, cur[1].metadata[1].s) = cur[1].metadata[2]

\* C9: WithMetadata drops the trailing element of an odd pairs list, so
\* GetMetadata of its result has even length and holds exactly the matched
\* pairs; WithMetadata(nil, ...) is nil.
C9_OddPairsTruncated ==
    /\ op = "GetMetadata" => Len(mdOut) % 2 = 0
    /\ (op = "GetMetadata" /\ cur # NilErr /\ cur[1].kind = "errMetadata"
            /\ ~HasMetadata(prevErr)) =>
          /\ Len(mdOut) = 2 * (Len(lastPairs) \div 2)
          /\ \A i \in 1..Len(mdOut) : mdOut[i] = lastPairs[i]
    /\ (op = "WithMetadata" /\ prevErr = NilErr) => cur = NilErr

\* GetMetadata of WithMetadata(e, k, v, k2) returned the one pair (k, v).
C9_Witness ==
    /\ op = "GetMetadata" /\ cur # NilErr /\ cur[1].kind = "errMetadata"
    /\ ~HasMetadata(prevErr)
    /\ Len(lastPairs) = 3
    /\ mdOut = <<lastPairs[1], lastPairs[2]>>

\* The key the formatter files a violation under.
LeafKey(v) == ToLower(Split(v.Namespace)[Len(Split(v.Namespace))])

\* C10: with no translator, every violation is entered under the
\* lower-cased leaf of its field namespace with the raw rule tag as value,
\* and among violations with the same key the last one's tag remains.
C10_RawTagsLastWins ==
    (op = "format" /\ defaultTranslator = "nil") =>
        /\ MapKeys(vOut) = {LeafKey(vErrs[i]) : i \in 1..Len(vErrs)}
        /\ \A i \in 1..Len(vErrs) :
             LET same == {j \in 1..Len(vErrs) : LeafKey(vErrs[j]) = LeafKey(vErrs[i])}
                 last == CHOOSE j \in same : \A k \in same : k <= j
             IN  MapGet(vOut, LeafKey(vErrs[i])) = RawTag(vErrs[last].Tag)

\* Two violations from different namespaces met under one key with
\* different tags, and the later tag remained.
C10_Witness ==
    /\ op = "format" /\ defaultTranslator = "nil" /\ Len(vErrs) = 2
    /\ vErrs[1].Namespace # vErrs[2].Namespace
    /\ LeafKey(vErrs[1]) = LeafKey(vErrs[2])
    /\ vErrs[1].Tag # vErrs[2].Tag
    /\ vOut = {<<LeafKey(vErrs[2]), RawTag(vErrs[2].Tag)>>}

\* The kinds of the nodes of the tree e, and its first node of a kind.
KindsOf(e) == {e[i].kind : i \in 1..Len(e)}
FirstOfKind(e, kind) ==
    e[CHOOSE i \in 1..Len(e) :
          e[i].kind = kind /\ \A j \in 1..(i - 1) : e[j].kind # kind]

\* C11: when the error matches several classification rules, the result of
\* MapError is the result of the earliest matching rule in the order
\* APIError, JSON syntax/type mismatch, EOF/unexpected EOF, validation,
\* cancelled, deadline exceeded, fallback, wherever in the error the
\* matches of the later rules are.
C11_EarliestRuleWins ==
    (op = "MapError" /\ cur # NilErr) =>
        LET K == KindsOf(cur) IN
        IF "APIError" \in K THEN mapped = FirstOfKind(cur, "APIError")
        ELSE IF K \cap {"SyntaxError", "UnmarshalTypeError"} # {}
             THEN IsAPIError(mapped, 400, "json", "invalid JSON format")
        ELSE IF K \cap {"EOF", "ErrUnexpectedEOF"} # {}
             THEN IsAPIError(mapped, 400, "json", "empty or incomplete JSON body")
        ELSE IF "ValidationErrors" \in K
             THEN /\ mapped.kind = "APIError" /\ mapped.StatusCode = 422
                  /\ mapped.Type = "validation"
                  /\ mapped.Message.k = "map[string]string"
                  /\ MapKeys(mapped.Message.m) =
                        {ToLower(v.Field) :
                            v \in {FirstOfKind(cur, "ValidationErrors").viols[i] :
                                     i \in 1..Len(FirstOfKind(cur, "ValidationErrors").viols)}}
        ELSE IF "Canceled" \in K
             THEN IsAPIError(mapped, 499, "canceled", "request cancelled")
        ELSE IF "DeadlineExceeded" \in K
             THEN IsAPIError(mapped, 504, "canceled", "request timeout")
        ELSE IsAPIError(mapped, 500, "internal", "internal server error")

\* An error whose first operand is a cancellation and whose second is an
\* EOF was classified as an incomplete JSON body.
C11_Witness ==
    /\ op = "MapError" /\ cur # NilErr /\ cur[1].kind = "wrapErrors"
    /\ ErrorsIs(FirstOperand(cur), {"Canceled"})
    /\ ErrorsIs(SecondOperand(cur), {"EOF"})
    /\ mapped.StatusCode = 400

----------------------------------------------------------------------------
\* Properties of the request pipeline (Spec).

\* Public has returned for request r.
Returned(r) == pc[r] \in {"logexit", "done"}

\* The results MapError may return for the error the handler returned.
Classified(r) ==
    {MapError(hret[r], defaultTranslator, ord) :
        ord \in MapErrorOrders(hret[r], defaultTranslator)}

\* Public itself wrote a status or a body to the response.
PublicWrote(r) == pub[r].statuses # <<>> \/ pub[r].body # <<>>

\* C4: when Public returns and the handler returned a non-nil error e, the
\* request's storage holds exactly e, decorations included, stored exactly
\* once; when the handler returned nil it holds no original error.
C4_OriginalStoredOnce ==
    \A r \in Requests : Returned(r) =>
        IF hret[r] # NilErr
        THEN OriginalError(req[r]) = hret[r] /\ stores[r] = 1
        ELSE OriginalError(req[r]) = NilErr /\ stores[r] = 0

\* A decorated error is in the storage, and it is not the normalized one.
C4_Witness ==
    \E r \in Requests :
        /\ pc[r] = "done" /\ HasMetadata(hret[r])
        /\ OriginalError(req[r]) = hret[r]
        /\ OriginalError(req[r]) # <<pub[r].apiErr>>

\* Public called the handler once and wrote iff it returned an error, the
\* first status it wrote being the classified one.
PublicCallsAndStatus(r) ==
    /\ calls[r] = 1
    /\ PublicWrote(r) <=> hret[r] # NilErr
    /\ hret[r] # NilErr =>
         /\ pub[r].apiErr \in Classified(r)
         /\ pub[r].statuses # <<>>
         /\ pub[r].statuses[1] = pub[r].apiErr.StatusCode

\* The body Public wrote is the JSON object of the classified error.
PublicBodyIsJSON(r) ==
    /\ pub[r].statuses = <<pub[r].apiErr.StatusCode>>
    /\ Len(pub[r].body) = 1
    /\ pub[r].body[1].fmt = "json"
    /\ pub[r].body[1].status = pub[r].apiErr.StatusCode
    /\ pub[r].body[1].type = pub[r].apiErr.Type
    /\ pub[r].body[1].msg = pub[r].apiErr.Message

\* C5 as stated: Public invokes the handler exactly once and writes to the
\* sink iff the handler returned an error; the status it writes is
\* MapError(err).StatusCode and the body the JSON of that APIError.
C5_AlwaysJSONBody ==
    \A r \in Requests : Returned(r) =>
        /\ PublicCallsAndStatus(r)
        /\ hret[r] # NilErr => PublicBodyIsJSON(r)

\* C5 amended: as above, the body being the JSON of the APIError whenever
\* its message can be serialized; when it cannot, Public writes a second
\* status 500 and a plain-text body instead.
C5_JSONBodyWhenEncodable ==
    \A r \in Requests : Returned(r) =>
        /\ PublicCallsAndStatus(r)
        /\ hret[r] # NilErr =>
             IF pub[r].apiErr.Message.k # "chan"
             THEN PublicBodyIsJSON(r)
             ELSE /\ pub[r].statuses = <<pub[r].apiErr.StatusCode, 500>>
                  /\ Len(pub[r].body) = 1
                  /\ pub[r].body[1].fmt = "text"

\* Public answered a decorated 404 with its JSON object.
C5_Witness ==
    \E r \in Requests :
        /\ pc[r] = "done" /\ HasMetadata(hret[r]) /\ calls[r] = 1
        /\ pub[r].statuses = <<404>>
        /\ PublicBodyIsJSON(r)
        /\ sink[r].status = 404

\* C6: when Public is about to write the body of a failed request, having
\* written the status, the Content-Type header of the response is
\* application/json.
C6_ContentTypeBeforeBody ==
    \A r \in Requests :
        pc[r] = "encode" => sink[r].contentType = "application/json"

\* The request path starts with "/api".
UnderApi(path) ==
    /\ Len(path) >= 4
    /\ path[1] = "/" /\ path[2] = "a" /\ path[3] = "p" /\ path[4] = "i"

\* md occurs in attrs as consecutive elements.
HoldsArgs(attrs, md) ==
    \E i \in 0..Len(attrs) :
        /\ i + Len(md) <= Len(attrs)
        /\ \A k \in 1..Len(md) : attrs[i + k] = RawArg(md[k])

Severity(status) ==
    IF status < 400 THEN "INFO" ELSE IF status < 500 THEN "WARN" ELSE "ERROR"

\* C8: the severity of the emitted record is a function of the recorded
\* status alone: informational below 400, warning from 400 to 499, error
\* from 500; the recorded status is 200 when no status was ever set.
C8_SeverityByStatus ==
    \A r \in Requests : pc[r] = "done" =>
        /\ \A i \in 1..Len(logs[r]) :
             /\ logs[r][i].level = Severity(rr[r].statusCode)
             /\ logs[r][i].attrs[1] = Attr("status", AttrVal(rr[r].statusCode, "", <<>>, <<>>))
        /\ ~sink[r].wroteHeader => rr[r].statusCode = 200

\* A cancelled request (499) was logged as a warning.
C8_Witness ==
    \E r \in Requests :
        /\ pc[r] = "done" /\ Len(logs[r]) = 1
        /\ rr[r].statusCode = 499 /\ logs[r][1].level = "WARN"

\* The request r ended with one record, a recorded status of 400 or more
\* and an original error in its request-scoped storage.
LoggedWithOriginal(r) ==
    /\ pc[r] = "done" /\ Len(logs[r]) = 1
    /\ rr[r].statusCode >= 400 /\ OriginalError(req[r]) # NilErr

\* The position of the attribute with this key in attrs, 0 when absent.
AttrIndex(attrs, key) ==
    IF \E i \in 1..Len(attrs) : attrs[i].attr /\ attrs[i].key = key
    THEN CHOOSE i \in 1..Len(attrs) : attrs[i].attr /\ attrs[i].key = key
    ELSE 0

StandardKeys == <<"status", "ms", "ip", "method", "path">>

\* C12 as stated: for a recorded status of 400 or more and a stored
\* original error, the error's text and its metadata pairs come before the
\* standard attributes status, ms, ip, method, path in the record.
C12_DetailBeforeStandard ==
    \A r \in Requests : LoggedWithOriginal(r) =>
        LET attrs == logs[r][1].attrs
            md == GetMetadata(OriginalError(req[r]))
        IN  /\ AttrIndex(attrs, "error_detail") = 1
            /\ \A k \in 1..Len(md) : attrs[1 + k] = RawArg(md[k])
            /\ \A k \in 1..5 :
                   AttrIndex(attrs, StandardKeys[k]) > 1 + Len(md)

\* C12, amended: the record holds the five standard attributes first, then
\* error_detail with the original error's text, then the metadata pairs in
\* the order of GetMetadata, then the reason phrase under "error".
C12_DetailAfterStandard ==
    \A r \in Requests : LoggedWithOriginal(r) =>
        LET attrs == logs[r][1].attrs
            md == GetMetadata(OriginalError(req[r]))
        IN  /\ Len(attrs) = 7 + Len(md)
            /\ \A k \in 1..5 : attrs[k].attr /\ attrs[k].key = StandardKeys[k]
            /\ attrs[6] = Attr("error_detail",
                                AttrVal(0, "", <<>>, ErrorText(OriginalError(req[r]))))
            /\ \A k \in 1..Len(md) : attrs[6 + k] = RawArg(md[k])
            /\ attrs[7 + Len(md)] =
                   Attr("error", AttrVal(0, StatusText(rr[r].statusCode), <<>>, <<>>))

\* A request that failed with a decorated error was logged.
C12_Witness ==
    \E r \in Requests :
        /\ LoggedWithOriginal(r)
        /\ GetMetadata(OriginalError(req[r])) # <<>>
        /\ AttrIndex(logs[r][1].attrs, "error_detail") = 6

\* C13: when serializing the APIError fails inside Public, the response
\* carries status 500 with a plain-text body, and Public returns normally.
C13_EncodeFailureSends500 ==
    \A r \in Requests :
        (Returned(r) /\ hret[r] # NilErr /\ ~Encodable(pub[r].apiErr.Message)) =>
            /\ sink[r].status = 500
            /\ sink[r].body # <<>>
            /\ sink[r].body[Len(sink[r].body)].by = "public"
            /\ sink[r].body[Len(sink[r].body)].fmt = "text"

\* The status the client of request r received: the first status written,
\* 200 when the response ended without one.
SentStatus(r) == IF sink[r].wroteHeader THEN sink[r].status ELSE 200

\* C16: the status the logger recorded for a request equals the status the
\* response sink sent to the client, whatever status and body writes the
\* handler and Public made.
C16_RecordedEqualsSent ==
    \A r \in Requests : pc[r] = "done" => rr[r].statusCode = SentStatus(r)

\* C18: for the same translator setting and the same failure set,
\* formatValidationErrors returns the same mapping on every call, also
\* with a translator and two violations in different namespaces that share
\* a leaf field name.
C18_SameMappingEveryCall ==
    vCalls = 2 => vOut = vPrev

\* The request a metadata value names, 0 when it names none.
NamedRequest(a) == IF ~a.attr /\ a.raw.t = "int" THEN a.raw.n ELSE 0

\* C15: under any interleaving of concurrently handled requests, the
\* original error the logger reads for a request is the error that
\* request's own handler returned, or none if that handler succeeded, and
\* never the error of another request.
C15_LoggerReadsOwnError ==
    \A r \in Requests :
        /\ OriginalError(req[r]) \in {NilErr, hret[r]}
        /\ (pc[r] = "done" /\ Len(logs[r]) = 1) =>
              LET attrs == logs[r][1].attrs IN
              /\ \A i \in 1..Len(attrs) : NamedRequest(attrs[i]) \in {0, r}
              /\ IF hret[r] = NilErr
                 THEN AttrIndex(attrs, "error_detail") = 0
                 ELSE /\ AttrIndex(attrs, "error_detail") > 0
                      /\ attrs[AttrIndex(attrs, "error_detail")] =
                            Attr("error_detail", AttrVal(0, "", <<>>, ErrorText(hret[r])))
                      /\ HoldsArgs(attrs, GetMetadata(hret[r]))

\* The logger wrote the record of a failed request while another request,
\* failed with a different error, was still between MapError and its own
\* logger exit.
C15_Witness ==
    \E r, q \in Requests :
        /\ r # q
        /\ pc[r] = "done" /\ Len(logs[r]) = 1 /\ hret[r] # NilErr
        /\ pc[q] \in {"writeheader", "encode", "logexit"}
        /\ OriginalError(req[q]) # NilErr
        /\ OriginalError(req[q]) # hret[r]

\* The concatenation of the sequences of ss from the last to the first.
RECURSIVE ConcatReversed(_)
ConcatReversed(ss) ==
    IF ss = <<>> THEN <<>> ELSE ConcatReversed(Tail(ss)) \o Head(ss)

\* C14: GetMetadata returns the concatenation of every decoration's pairs,
\* the innermost decoration's pairs first and the outermost's last, each
\* decoration's pairs in the order they were given.
C14_InnermostFirst ==
    sop = "GetMetadata" => gotVal = ConcatReversed(given)

\* C17: a call of GetMetadata changes neither the pairs stored in a
\* decoration nor the caller's array, and writing into the returned slice
\* does not change what the next GetMetadata on the same error returns.
C17_PureIndependentRead ==
    /\ sop \in {"GetMetadata", "GetMetadataAgain"} =>
          /\ \A k \in 1..Len(decos) : SliceVal(heap, decos[k]) = SliceVal(snap, decos[k])
          /\ heap[1] = snap[1]
    /\ sop = "GetMetadataAgain" => gotVal = prevVal

====
